---- MODULE Spec2Model ----
(***************************************************************************)
(* Model of display-controller.py: the xrandr status parser, the          *)
(* configuration store, the display matcher, the command builder and the  *)
(* interactive setup wizard.                                               *)
(*                                                                         *)
(* Four specifications share the variables:                                *)
(*   SpecBuild  DisplayController.configure applied to bounded inputs      *)
(*   SpecParse  DisplayParser.parse consuming a status report line by line *)
(*   SpecSetup  main() with --setup: one run of the setup wizard           *)
(*   Spec       main(): successive process invocations over one config file*)
(***************************************************************************)
EXTENDS Integers, Sequences, FiniteSets, TLC

VARIABLES
    \* ---- DisplayController.configure: parameters and the command it runs
    displays,               \* list handed to configure ("displays")
    display_mode,           \* DisplayMode
    extend_all,             \* bool
    direction,              \* "left" | "right"
    command,                \* the command passed to ProcessUtils.run
    \* ---- DisplayParser.parse: locals of the line loop
    lines,                  \* lines consumed so far (output.split("\n"))
    parsed_displays,
    edid_buffer,
    collect_lines,
    attribute_indentation,
    last_connected,
    parse_pc,               \* "loop" while in the for loop, "returned" after it
    \* ---- main(): one process invocation after another
    pc,                     \* "idle" | "confirm" | "done" | "crashed"
    action,                 \* the action flag of args
    file,                   \* ~/.config/display-switcher.conf: <<>> or <<json>>
    current_displays,       \* DisplayParser().parse().displays
    display_list,           \* the wizard's candidate order
    configuration_list,     \* JsonUtils.from_json(): <<>> (None) or <<list>>
    use_current,
    proposed,               \* candidate orders passed to the trial configure
    prompts,                \* input() calls since the last trial configure
    correct_order,          \* the last string input() returned ("" before any)
    commands,               \* configure calls of this invocation
    reads,                  \* opens of the file for reading, this invocation
    writes,                 \* opens of the file for writing, this invocation
    printed                 \* names printed after "Correct order is:"

buildVars == <<displays, display_mode, extend_all, direction, command>>
parseVars == <<lines, parsed_displays, edid_buffer, collect_lines,
               attribute_indentation, last_connected, parse_pc>>
mainVars  == <<pc, action, file, current_displays, display_list,
               configuration_list, use_current, proposed, prompts,
               correct_order, commands, reads, writes, printed>>
vars == <<buildVars, parseVars, mainVars>>

(***************************************************************************)
(* Data model                                                              *)
(***************************************************************************)

\* Python None for a string-valued field; an absent Offset / DisplayList /
\* file is the empty tuple and a present one a 1-tuple (an option).
None == "None"
NoOffset == <<>>

\* class Offset
Offset(dir, offset) == [direction |-> dir, offset |-> offset]

\* class Display; __init__ turns edid None into ''
Display(name, resolution, x_offset, y_offset, edid) ==
    [name |-> name, resolution |-> resolution,
     x_offset |-> x_offset, y_offset |-> y_offset,
     edid |-> IF edid = None THEN "" ELSE edid]

\* class DisplayMode
DisplayMode == {"CLONE", "INTERNAL_ONLY", "INTERNAL_EXTEND", "EXTERNAL_ONLY"}

\* Output names xrandr reports.
Names == {"eDP-1", "HDMI-1", "DP-1"}

\* Python sequence indexing l[i] for i in -len..len-1 (0-based, negative
\* indices count from the end).
PyIndex(l, i) == IF i < 0 THEN l[Len(l) + i + 1] ELSE l[i + 1]

\* Python slice bounds: a negative bound counts from the end, and every
\* bound is clamped to 0..len.
PyClamp(l, i) ==
    LET j == IF i < 0 THEN Len(l) + i ELSE i
    IN  IF j < 0 THEN 0 ELSE IF j > Len(l) THEN Len(l) ELSE j

\* l[a:b] with 0-based a (inclusive) and b (exclusive), already clamped
PySlice(l, a, b) == IF a >= b THEN <<>> ELSE SubSeq(l, a + 1, b)

(***************************************************************************)
(* Command Builder: DisplayController.configure                            *)
(***************************************************************************)

\* " --{}-of".format(direction)
DirectionOf(dir) == IF dir = "left" THEN "--left-of" ELSE "--right-of"

\* Mutant of CloneOptions: every further display mirrors display 0.
CloneOptions_SameAsFirst(ds, idx, mode) ==
    IF mode = "CLONE"
    THEN IF idx = 0
         THEN <<"--primary", "--auto">>
         ELSE <<"--auto", "--same-as", PyIndex(ds, 0).name>>
    ELSE <<>>

\* first if statement of the loop body (CLONE)
CloneOptions(ds, idx, mode) ==
    IF mode = "CLONE"
    THEN IF idx = 0
         THEN <<"--primary", "--auto">>
         ELSE <<"--auto", "--same-as", PyIndex(ds, idx - 1).name>>
    ELSE <<>>

\* Mutant of ExternalOnlyOptions: the first external display is looked for
\* at index 2.
ExternalOnlyOptions_PrimaryAtTwo(ds, idx, all, dir) ==
    (IF idx = 0 THEN <<"--off">> ELSE <<>>)
    \o (IF idx = 2
        THEN <<"--primary", "--auto">>
        ELSE IF all
             THEN <<"--auto", DirectionOf(dir), PyIndex(ds, idx - 1).name>>
             ELSE <<"--off">>)

\* EXTERNAL_ONLY branch: "if idx == 0" and "if idx == 1 / elif / else" are
\* two separate statements, both executed for every idx
ExternalOnlyOptions(ds, idx, all, dir) ==
    (IF idx = 0 THEN <<"--off">> ELSE <<>>)
    \o (IF idx = 1
        THEN <<"--primary", "--auto">>
        ELSE IF all
             THEN <<"--auto", DirectionOf(dir), PyIndex(ds, idx - 1).name>>
             ELSE <<"--off">>)

\* Mutant of InternalExtendOptions: the first external display is gated by
\* extend_all like the later ones.
InternalExtendOptions_AllGated(ds, idx, all, dir) ==
    IF idx = 0
    THEN <<"--primary", "--auto">>
    ELSE IF all
         THEN <<"--auto", DirectionOf(dir), PyIndex(ds, idx - 1).name>>
         ELSE <<"--off">>

\* INTERNAL_EXTEND branch
InternalExtendOptions(ds, idx, all, dir) ==
    IF idx = 0
    THEN <<"--primary", "--auto">>
    ELSE IF idx = 1
         THEN <<"--auto", DirectionOf(dir), PyIndex(ds, idx - 1).name>>
         ELSE IF all
              THEN <<"--auto", DirectionOf(dir), PyIndex(ds, idx - 1).name>>
              ELSE <<"--off">>

\* second if / elif / elif chain of the loop body
ModeOptions(ds, idx, mode, all, dir) ==
    IF mode = "INTERNAL_ONLY"
    THEN IF idx = 0 THEN <<"--primary", "--auto">> ELSE <<"--off">>
    ELSE IF mode = "EXTERNAL_ONLY"
         THEN ExternalOnlyOptions(ds, idx, all, dir)
         ELSE IF mode = "INTERNAL_EXTEND"
              THEN InternalExtendOptions(ds, idx, all, dir)
              ELSE <<>>

\* Mutant of Directive: the group names the display before the current one.
Directive_NamesPrevious(ds, idx, mode, all, dir) ==
    [output  |-> PyIndex(ds, idx - 1).name,
     options |-> CloneOptions(ds, idx, mode) \o ModeOptions(ds, idx, mode, all, dir)]

\* one iteration of the loop: " --output <name>" and the options after it
Directive(ds, idx, mode, all, dir) ==
    [output  |-> PyIndex(ds, idx).name,
     options |-> CloneOptions(ds, idx, mode) \o ModeOptions(ds, idx, mode, all, dir)]

\* the command configure assembles: one directive group per loop iteration
Configure(ds, mode, all, dir) ==
    [i \in 1..Len(ds) |-> Directive(ds, i - 1, mode, all, dir)]

\* Largest display list handed to configure in SpecBuild.
MaxBuildDisplays == 3

\* Display lists of length 0..n over the given displays.
RECURSIVE ListsOver(_, _)
ListsOver(S, n) ==
    IF n = 0
    THEN {<<>>}
    ELSE LET shorter == ListsOver(S, n - 1)
         IN  shorter \cup {Append(l, d) : l \in {m \in shorter : Len(m) = n - 1}, d \in S}

\* A display as parse_display returns it, before any EDID is attached.
BareDisplay(name) == Display(name, None, NoOffset, NoOffset, None)

BuildInputs == ListsOver({BareDisplay(n) : n \in Names}, MaxBuildDisplays)

InitBuild ==
    /\ displays = <<>>
    /\ display_mode = "CLONE"
    /\ extend_all = FALSE
    /\ direction = "right"
    /\ command = <<>>

\* DisplayController.configure(displays, display_mode, extend_all, direction)
ConfigureCall(ds, mode, all, dir) ==
    /\ displays' = ds
    /\ display_mode' = mode
    /\ extend_all' = all
    /\ direction' = dir
    /\ command' = Configure(ds, mode, all, dir)

(***************************************************************************)
(* Status Parser: DisplayParser.parse                                      *)
(***************************************************************************)

\* A line of the status report, as the predicates the parser evaluates on it:
\*   has_disconnected  "disconnected" in line
\*   has_connected     "connected" in line
\*   has_edid          "EDID" in line
\*   edid_index        line.index("EDID")
\*   starts_space      line.startswith(' ')
\*   tabs              number of leading tab characters
\*   stripped          line.strip()
\*   name, resolution, x_offset, y_offset: what the grammar extracts from a
\*   connected line (parse_display)
Line(dis, con, edid, index, space, tabs, stripped, name, res, x, y) ==
    [has_disconnected |-> dis, has_connected |-> con, has_edid |-> edid,
     edid_index |-> index, starts_space |-> space, tabs |-> tabs,
     stripped |-> stripped, name |-> name, resolution |-> res,
     x_offset |-> x, y_offset |-> y]

\* "Screen 0: minimum 8 x 8, current ..."
ScreenLine ==
    Line(FALSE, FALSE, FALSE, 0, FALSE, 0, "Screen 0", None, None, NoOffset, NoOffset)
\* "eDP-1 connected primary 1920x1080+0+0 (normal ...) 310mm x 170mm"
ConnectedActiveLine ==
    Line(FALSE, TRUE, FALSE, 0, FALSE, 0, "eDP-1 connected", "eDP-1", "1920x1080",
         <<Offset("+", "0")>>, <<Offset("+", "0")>>)
\* "HDMI-1 connected (normal left inverted right x axis y)"
ConnectedInactiveLine ==
    Line(FALSE, TRUE, FALSE, 0, FALSE, 0, "HDMI-1 connected", "HDMI-1", None,
         NoOffset, NoOffset)
\* "DP-1 disconnected (normal left inverted right x axis y)"
DisconnectedLine ==
    Line(TRUE, TRUE, FALSE, 0, FALSE, 0, "DP-1 disconnected", None, None,
         NoOffset, NoOffset)
\* "\tEDID: "
EdidLine ==
    Line(FALSE, FALSE, TRUE, 1, FALSE, 1, "EDID:", None, None, NoOffset, NoOffset)
\* "\t\t00ffa1", "\t\tb2c3": hex continuation lines of an EDID block
HexLine(hex) ==
    Line(FALSE, FALSE, FALSE, 0, FALSE, 2, hex, None, None, NoOffset, NoOffset)
\* "\tscaling mode: Full"
PropertyLine ==
    Line(FALSE, FALSE, FALSE, 0, FALSE, 1, "scaling mode: Full", None, None,
         NoOffset, NoOffset)
\* "   1920x1080     60.00*+"
ModeLine ==
    Line(FALSE, FALSE, FALSE, 0, TRUE, 0, "1920x1080 60.00*+", None, None,
         NoOffset, NoOffset)

HexChunks == {"00ffa1", "b2c3"}

StatusLines ==
    {ScreenLine, ConnectedActiveLine, ConnectedInactiveLine, DisconnectedLine,
     EdidLine, PropertyLine, ModeLine} \cup {HexLine(h) : h \in HexChunks}

\* Longest status report parsed in SpecParse.
MaxLines == 5

\* ProcessUtils.run: output.strip(" \t\n\r") removes the leading whitespace
\* of the first line of the report (trailing whitespace is not part of any
\* field of Line).
RunStripFirst(line) ==
    [line EXCEPT !.starts_space = FALSE, !.tabs = 0,
                 !.edid_index = IF line.has_edid THEN 0 ELSE line.edid_index]

\* ''.join(edid_buffer)
RECURSIVE Join(_)
Join(buffer) == IF buffer = <<>> THEN "" ELSE Head(buffer) \o Join(Tail(buffer))

\* Mutant of Indentation: leading tabs are counted for every line, so a line
\* that starts with a space has indentation 0.
Indentation_TabsOnly(line, attr_indentation) == line.tabs

\* the indentation computed for a line while collect_lines is set
Indentation(line, attr_indentation) ==
    IF line.starts_space THEN attr_indentation ELSE line.tabs

InitParse ==
    /\ lines = <<>>
    /\ parsed_displays = <<>>
    /\ edid_buffer = <<>>
    /\ collect_lines = FALSE
    /\ attribute_indentation = 0
    /\ last_connected = FALSE
    /\ parse_pc = "loop"

\* the last parsed display gets the joined buffer as its edid
StoreEdid(parsed, buffer) ==
    [parsed EXCEPT ![Len(parsed)].edid = Join(buffer)]

\* Mutant of ParseLine: "connected" is tested before "disconnected", so a
\* disconnected line (which contains "connected") is parsed as a display.
ParseLine_ConnectedFirst(raw) ==
    LET line == IF lines = <<>> THEN RunStripFirst(raw) ELSE raw IN
    /\ parse_pc = "loop"
    /\ Len(lines) < MaxLines
    /\ lines' = Append(lines, line)
    /\ parse_pc' = parse_pc
    /\ IF line.has_connected
       THEN /\ parsed_displays' =
                  Append(parsed_displays,
                         Display(line.name, line.resolution, line.x_offset,
                                 line.y_offset, None))
            /\ last_connected' = TRUE
            /\ UNCHANGED <<edid_buffer, collect_lines, attribute_indentation>>
       ELSE IF line.has_disconnected
       THEN /\ last_connected' = FALSE
            /\ UNCHANGED <<parsed_displays, edid_buffer, collect_lines,
                           attribute_indentation>>
       ELSE IF last_connected /\ line.has_edid
       THEN /\ edid_buffer' = <<>>
            /\ attribute_indentation' = line.edid_index
            /\ collect_lines' = TRUE
            /\ UNCHANGED <<parsed_displays, last_connected>>
       ELSE IF collect_lines
       THEN IF attribute_indentation = Indentation(line, attribute_indentation)
            THEN /\ collect_lines' = FALSE
                 /\ parsed_displays' = StoreEdid(parsed_displays, edid_buffer)
                 /\ UNCHANGED <<edid_buffer, attribute_indentation, last_connected>>
            ELSE /\ edid_buffer' = Append(edid_buffer, line.stripped)
                 /\ UNCHANGED <<parsed_displays, collect_lines,
                                attribute_indentation, last_connected>>
       ELSE UNCHANGED <<parsed_displays, edid_buffer, collect_lines,
                        attribute_indentation, last_connected>>

\* one iteration of "for line in lines"
ParseLine(raw) ==
    LET line == IF lines = <<>> THEN RunStripFirst(raw) ELSE raw IN
    /\ parse_pc = "loop"
    /\ Len(lines) < MaxLines
    /\ lines' = Append(lines, line)
    /\ parse_pc' = parse_pc
    /\ IF line.has_disconnected
       THEN /\ last_connected' = FALSE
            /\ UNCHANGED <<parsed_displays, edid_buffer, collect_lines,
                           attribute_indentation>>
       ELSE IF line.has_connected
       THEN /\ parsed_displays' =
                  Append(parsed_displays,
                         Display(line.name, line.resolution, line.x_offset,
                                 line.y_offset, None))
            /\ last_connected' = TRUE
            /\ UNCHANGED <<edid_buffer, collect_lines, attribute_indentation>>
       ELSE IF last_connected /\ line.has_edid
       THEN /\ edid_buffer' = <<>>
            /\ attribute_indentation' = line.edid_index
            /\ collect_lines' = TRUE
            /\ UNCHANGED <<parsed_displays, last_connected>>
       ELSE IF collect_lines
       THEN IF attribute_indentation = Indentation(line, attribute_indentation)
            THEN /\ collect_lines' = FALSE
                 /\ parsed_displays' = StoreEdid(parsed_displays, edid_buffer)
                 /\ UNCHANGED <<edid_buffer, attribute_indentation, last_connected>>
            ELSE /\ edid_buffer' = Append(edid_buffer, line.stripped)
                 /\ UNCHANGED <<parsed_displays, collect_lines,
                                attribute_indentation, last_connected>>
       ELSE UNCHANGED <<parsed_displays, edid_buffer, collect_lines,
                        attribute_indentation, last_connected>>

\* the loop ends and parse returns DisplayList(parsed_displays)
ParseReturn ==
    /\ parse_pc = "loop"
    /\ parse_pc' = "returned"
    /\ UNCHANGED <<lines, parsed_displays, edid_buffer, collect_lines,
                   attribute_indentation, last_connected>>

(***************************************************************************)
(* Configuration Store: JsonUtils                                          *)
(***************************************************************************)

\* JSON null for a string-valued member; a null object member is <<>>.
JsonNull == "null"

\* json.dump(..., default=lambda o: o.__dict__) of one Display
DisplayToJson(d) ==
    [name |-> d.name,
     resolution |-> IF d.resolution = None THEN JsonNull ELSE d.resolution,
     x_offset |-> d.x_offset,
     y_offset |-> d.y_offset,
     edid |-> d.edid]

\* the document JsonUtils.to_json writes for a DisplayList
ToJson(list) == [displays |-> [i \in 1..Len(list) |-> DisplayToJson(list[i])]]

\* Offset.from_json(json_data) is cls(**json_data): a TypeError when the
\* member is null
OffsetFromJsonRaises(json_offset) == json_offset = <<>>

\* Display.from_json raises when one of its two Offset.from_json calls does
DisplayFromJsonRaises(j) ==
    OffsetFromJsonRaises(j.x_offset) \/ OffsetFromJsonRaises(j.y_offset)

\* Display.from_json, when it returns
DisplayFromJson(j) ==
    Display(j.name,
            IF j.resolution = JsonNull THEN None ELSE j.resolution,
            j.x_offset, j.y_offset, j.edid)

\* DisplayList.from_json raises when the map over the displays does
FromJsonRaises(json) ==
    \E i \in 1..Len(json.displays) : DisplayFromJsonRaises(json.displays[i])

\* DisplayList.from_json, when it returns
DisplayListFromJson(json) ==
    [i \in 1..Len(json.displays) |-> DisplayFromJson(json.displays[i])]

(***************************************************************************)
(* Display Matcher and setup rotation: module-level helpers and main       *)
(***************************************************************************)

\* Mutant of rotate: l[n:] + l[:n], the first element moves to the back.
rotate_left(l, n) ==
    PySlice(l, PyClamp(l, n), Len(l)) \o PySlice(l, 0, PyClamp(l, n))

\* rotate(l, n): l[-n:] + l[:-n]
rotate(l, n) ==
    PySlice(l, PyClamp(l, -n), Len(l)) \o PySlice(l, 0, PyClamp(l, -n))

\* get_edids(displays)
get_edids(ds) == [i \in 1..Len(ds) |-> ds[i].edid]

\* set(l)
SetOf(l) == {l[i] : i \in 1..Len(l)}

\* Mutant of IsSubset: the subset test the other way round.
IsSubset_Reversed(current_edids, config_edids) ==
    SetOf(config_edids) \subseteq SetOf(current_edids)

\* set(current_edids).issubset(config_edids)
IsSubset(current_edids, config_edids) == SetOf(current_edids) \subseteq SetOf(config_edids)

\* Mutant of NameFor: the stored name is kept.
NameFor_KeepsStored(display, current) == display.name

\* next(iter([d.name for d in current if d.edid == display.edid]), display.name)
NameFor(display, current) ==
    LET matches == {i \in 1..Len(current) : current[i].edid = display.edid}
    IN  IF matches = {}
        THEN display.name
        ELSE current[CHOOSE i \in matches : \A j \in matches : i <= j].name

\* "for display in displays: display.name = ..." over the stored list
RenameStored(stored, current) ==
    [i \in 1..Len(stored) |-> [stored[i] EXCEPT !.name = NameFor(stored[i], current)]]

\* use_current after "if configuration_list is not None: ..."
UseCurrent(config, current) ==
    IF config # <<>>
    THEN ~IsSubset(get_edids(current), get_edids(config[1]))
    ELSE TRUE

\* the list main hands to DisplayController.configure
MatchedDisplays(config, current) ==
    IF UseCurrent(config, current)
    THEN current
    ELSE RenameStored(config[1], current)

\* DisplayMode and arguments of the configure call of each action flag
ModeOf(flag) ==
    CASE flag = "--internal" -> "INTERNAL_ONLY"
      [] flag = "--clone"    -> "CLONE"
      [] flag = "--extend"   -> "INTERNAL_EXTEND"
      [] flag = "--external" -> "EXTERNAL_ONLY"

ConfigureFlags == {"--internal", "--clone", "--extend", "--external"}

\* Connectors in the order xrandr enumerates them.
Ports == <<"eDP-1", "HDMI-1", "DP-1">>

\* A display as parse returns it: active (resolution and offsets present)
\* or connected but inactive (all three None).
ParsedDisplay(name, active, edid) ==
    IF active
    THEN Display(name, "1920x1080", <<Offset("+", "0")>>, <<Offset("+", "0")>>, edid)
    ELSE Display(name, None, NoOffset, NoOffset, edid)

\* EDIDs the parser attaches in the live scans of Spec ('' when none is read).
LiveEdids == {"", "00ffa1"}

\* Live lists of at most n displays: the connected ones among the ports, in
\* port order, each active or not, each with one of the EDIDs.
RECURSIVE LiveListsFrom(_, _)
LiveListsFrom(p, n) ==
    IF p > Len(Ports)
    THEN {<<>>}
    ELSE LET rest == LiveListsFrom(p + 1, n)
         IN  rest \cup
             {<<ParsedDisplay(Ports[p], a, e)>> \o l :
                 a \in BOOLEAN, e \in LiveEdids, l \in {m \in rest : Len(m) < n}}

\* Most displays connected at once in Spec.
MaxDisplays == 2
\* Most displays connected during a setup run in SpecSetup.
MaxSetupDisplays == 3
\* Most rejections ('n') answered in one setup run.
MaxRejections == 3
\* Most invalid answers given to one prompt.
MaxInvalid == 1

Init ==
    /\ InitBuild
    /\ InitParse
    /\ pc = "idle"
    /\ action = "none"
    /\ file = <<>>
    /\ current_displays = <<>>
    /\ display_list = <<>>
    /\ configuration_list = <<>>
    /\ use_current = TRUE
    /\ proposed = <<>>
    /\ prompts = 0
    /\ correct_order = ""
    /\ commands = 0
    /\ reads = 0
    /\ writes = 0
    /\ printed = <<>>

\* a process starts: nothing is running
Startable == pc = "idle"

\* [print(display.name) for display in display_list]
NamesOf(list) == [i \in 1..Len(list) |-> list[i].name]

\* main with --setup, up to the first input(): parse, first trial configure
InvokeSetup(live) ==
    /\ Startable
    /\ action' = "--setup"
    /\ current_displays' = live
    /\ display_list' = live
    /\ ConfigureCall(live, "INTERNAL_EXTEND", TRUE, "right")
    /\ commands' = 1
    /\ proposed' = <<live>>
    /\ prompts' = 1
    /\ correct_order' = ""
    /\ pc' = "confirm"
    /\ configuration_list' = <<>>
    /\ use_current' = TRUE
    /\ reads' = 0
    /\ writes' = 0
    /\ printed' = <<>>
    /\ UNCHANGED <<file, parseVars>>

\* Mutant of AnswerYes: "current_displays.displays = display_list" is
\* missing, so the parse order is persisted.
AnswerYes_PersistsParseOrder ==
    /\ pc = "confirm"
    /\ file' = <<ToJson(current_displays)>>
    /\ writes' = writes + 1
    /\ printed' = NamesOf(display_list)
    /\ pc' = "done"
    /\ correct_order' = "y"
    /\ UNCHANGED <<action, current_displays, display_list, configuration_list,
                   use_current, proposed, prompts, commands, reads, buildVars,
                   parseVars>>

\* input() returns 'y': persist the candidate order, report it, terminate
AnswerYes ==
    /\ pc = "confirm"
    /\ current_displays' = display_list
    /\ file' = <<ToJson(display_list)>>
    /\ writes' = writes + 1
    /\ printed' = NamesOf(display_list)
    /\ pc' = "done"
    /\ correct_order' = "y"
    /\ UNCHANGED <<action, display_list, configuration_list, use_current,
                   proposed, prompts, commands, reads, buildVars, parseVars>>

\* input() returns 'n': rotate, next trial configure, prompt again
AnswerNo ==
    /\ pc = "confirm"
    /\ Len(proposed) <= MaxRejections
    /\ display_list' = rotate(display_list, 1)
    /\ ConfigureCall(display_list', "INTERNAL_EXTEND", TRUE, "right")
    /\ commands' = commands + 1
    /\ proposed' = Append(proposed, display_list')
    /\ prompts' = 1
    /\ correct_order' = "n"
    /\ UNCHANGED <<pc, action, file, current_displays, configuration_list,
                   use_current, reads, writes, printed, parseVars>>

\* Answers that are neither 'y' nor 'n'.
InvalidAnswers == {"", "Y"}

\* Mutant of AnswerOther: any answer but 'y' leaves the inner loop, so an
\* invalid answer rejects the order.
AnswerOther_Rejects(answer) ==
    /\ pc = "confirm"
    /\ prompts <= MaxInvalid
    /\ display_list' = rotate(display_list, 1)
    /\ ConfigureCall(display_list', "INTERNAL_EXTEND", TRUE, "right")
    /\ commands' = commands + 1
    /\ proposed' = proposed
    /\ prompts' = prompts + 1
    /\ correct_order' = answer
    /\ UNCHANGED <<pc, action, file, current_displays, configuration_list,
                   use_current, reads, writes, printed, parseVars>>

\* input() returns anything else: the inner loop prompts again
AnswerOther(answer) ==
    /\ pc = "confirm"
    /\ prompts <= MaxInvalid
    /\ prompts' = prompts + 1
    /\ correct_order' = answer
    /\ UNCHANGED <<pc, action, file, current_displays, display_list,
                   configuration_list, use_current, proposed, commands,
                   reads, writes, printed, buildVars, parseVars>>

\* Mutant of InvokeList: the listed displays are saved as the configuration.
InvokeList_Persists(live) ==
    /\ Startable
    /\ action' = "--list"
    /\ current_displays' = live
    /\ pc' = "done"
    /\ file' = <<ToJson(live)>>
    /\ writes' = 1
    /\ UNCHANGED <<display_list, configuration_list, use_current, proposed,
                   prompts, correct_order, commands, reads, printed,
                   buildVars, parseVars>>

\* main with --list: DisplayController.list() prints the live displays
InvokeList(live) ==
    /\ Startable
    /\ action' = "--list"
    /\ current_displays' = live
    /\ pc' = "done"
    /\ display_list' = <<>>
    /\ configuration_list' = <<>>
    /\ use_current' = TRUE
    /\ proposed' = <<>>
    /\ prompts' = 0
    /\ correct_order' = ""
    /\ commands' = 0
    /\ reads' = 0
    /\ writes' = 0
    /\ printed' = <<>>
    /\ displays' = <<>>
    /\ display_mode' = "CLONE"
    /\ extend_all' = FALSE
    /\ direction' = "right"
    /\ command' = <<>>
    /\ UNCHANGED <<file, parseVars>>

\* JsonUtils.from_json raises: main dies with the TypeError before the
\* matcher runs
LoadRaises == file # <<>> /\ FromJsonRaises(file[1])

\* JsonUtils.from_json(), when it returns: None for a missing file
Loaded == IF file = <<>> THEN <<>> ELSE <<DisplayListFromJson(file[1])>>

\* main with --internal / --clone / --extend / --external: load the stored
\* configuration, match it against the live scan, configure
InvokeConfigure(flag, all, left, live) ==
    /\ Startable
    /\ flag \in {"--extend", "--external"} \/ (~all /\ ~left)
    /\ action' = flag
    /\ current_displays' = live
    /\ reads' = IF file = <<>> THEN 0 ELSE 1
    /\ writes' = 0
    /\ display_list' = <<>>
    /\ proposed' = <<>>
    /\ prompts' = 0
    /\ correct_order' = ""
    /\ printed' = <<>>
    /\ IF LoadRaises
       THEN /\ pc' = "crashed"
            /\ configuration_list' = <<>>
            /\ use_current' = TRUE
            /\ commands' = 0
            /\ displays' = <<>>
            /\ display_mode' = "CLONE"
            /\ extend_all' = FALSE
            /\ direction' = "right"
            /\ command' = <<>>
       ELSE /\ pc' = "done"
            /\ configuration_list' = Loaded
            /\ use_current' = UseCurrent(Loaded, live)
            /\ commands' = 1
            /\ ConfigureCall(MatchedDisplays(Loaded, live), ModeOf(flag), all,
                             IF left THEN "left" ELSE "right")
    /\ UNCHANGED <<file, parseVars>>

\* the process ends (main returns, or the TypeError propagates): everything
\* but the file is gone
Exit ==
    /\ pc \in {"done", "crashed"}
    /\ pc' = "idle"
    /\ action' = "none"
    /\ current_displays' = <<>>
    /\ display_list' = <<>>
    /\ configuration_list' = <<>>
    /\ use_current' = TRUE
    /\ proposed' = <<>>
    /\ prompts' = 0
    /\ correct_order' = ""
    /\ commands' = 0
    /\ reads' = 0
    /\ writes' = 0
    /\ printed' = <<>>
    /\ displays' = <<>>
    /\ display_mode' = "CLONE"
    /\ extend_all' = FALSE
    /\ direction' = "right"
    /\ command' = <<>>
    /\ UNCHANGED <<file, parseVars>>

LiveLists == LiveListsFrom(1, MaxDisplays)
SetupLists == LiveListsFrom(1, MaxSetupDisplays)

RunSetup == Startable /\ \E live \in LiveLists : InvokeSetup(live)
RunList == Startable /\ \E live \in LiveLists : InvokeList(live)
RunConfigure ==
    /\ Startable
    /\ \E flag \in ConfigureFlags, all \in BOOLEAN, left \in BOOLEAN, live \in LiveLists :
          InvokeConfigure(flag, all, left, live)

Reprompt == \E answer \in InvalidAnswers : AnswerOther(answer)

Next ==
    RunSetup \/ AnswerYes \/ AnswerNo \/ Reprompt \/ RunList \/ RunConfigure \/ Exit

Spec == Init /\ [][Next]_vars

\* One setup run from a fresh account, with up to MaxSetupDisplays displays.
StartSetup == pc = "idle" /\ \E live \in SetupLists : InvokeSetup(live)

NextSetup == StartSetup \/ AnswerYes \/ AnswerNo \/ Reprompt

SpecSetup == Init /\ [][NextSetup]_vars

\* configure applied once to an input of BuildInputs
BuildStep ==
    /\ pc = "idle"
    /\ \E ds \in BuildInputs, mode \in DisplayMode, all \in BOOLEAN,
          dir \in {"left", "right"} : ConfigureCall(ds, mode, all, dir)
    /\ pc' = "done"
    /\ commands' = 1
    /\ UNCHANGED <<parseVars, action, file, current_displays, display_list,
                   configuration_list, use_current, proposed, prompts,
                   correct_order, reads, writes, printed>>

SpecBuild == Init /\ [][BuildStep]_vars

\* parse applied to every report of at most MaxLines lines
ParseStep ==
    /\ \E raw \in StatusLines : ParseLine(raw)
    /\ UNCHANGED <<buildVars, mainVars>>

ParseEnd == ParseReturn /\ UNCHANGED <<buildVars, mainVars>>

NextParse == ParseStep \/ ParseEnd

SpecParse == Init /\ [][NextParse]_vars

(***************************************************************************)
(* Command Builder properties (SpecBuild)                                  *)
(***************************************************************************)

PositionalOptions == {"--same-as", "--left-of", "--right-of"}

\* configure has run on the list in "displays"
Configured == pc = "done" /\ commands = 1

\* C1: every display named by a positional option (--same-as, --left-of,
\* --right-of) in the directive of display i stands at an index strictly
\* smaller than i; the directive of display 0 carries no positional option.
C1_ReferencesPointBack ==
    Configured =>
        \A i \in 1..Len(command) :
            \A k \in 1..Len(command[i].options) :
                command[i].options[k] \in PositionalOptions =>
                    /\ k < Len(command[i].options)
                    /\ \E j \in 1..(i - 1) : displays[j].name = command[i].options[k + 1]

\* C2: in EXTERNAL_ONLY mode the directive of display 0 is exactly --off,
\* that of display 1 exactly --primary --auto, and that of display i > 1 is
\* --auto --<direction>-of <display i-1> with extend_all and exactly --off
\* without it.
C2_ExternalOnlyDirectives ==
    (Configured /\ display_mode = "EXTERNAL_ONLY") =>
        \A i \in 1..Len(command) :
            command[i].options =
                IF i = 1 THEN <<"--off">>
                ELSE IF i = 2 THEN <<"--primary", "--auto">>
                ELSE IF extend_all
                     THEN <<"--auto",
                            IF direction = "left" THEN "--left-of" ELSE "--right-of",
                            displays[i - 1].name>>
                     ELSE <<"--off">>

(***************************************************************************)
(* Matcher properties (Spec)                                               *)
(***************************************************************************)

\* a configuring invocation has handed a list to configure
ConfigureDone == pc = "done" /\ action \in ConfigureFlags

\* the displays of the persisted configuration, as written in the file
StoredDisplays == file[1].displays
StoredEdids == {StoredDisplays[i].edid : i \in 1..Len(StoredDisplays)}
LiveEdidSet == {current_displays[i].edid : i \in 1..Len(current_displays)}
LiveNamesFor(edid) ==
    {current_displays[j].name :
        j \in {k \in 1..Len(current_displays) : current_displays[k].edid = edid}}

\* a stored configuration exists and every connected EDID is in it
StoredCovers == file # <<>> /\ LiveEdidSet \subseteq StoredEdids

\* positions of the stored list that the handed list keeps, in order
Embeddings ==
    {f \in [1..Len(displays) -> 1..Len(StoredDisplays)] :
        \A i, j \in 1..Len(displays) : i < j => f[i] < f[j]}

\* C3: when a stored configuration exists and the connected EDIDs are a
\* subset of the stored EDIDs, the list handed to configure follows the
\* stored order, and each stored display whose EDID the live scan reports
\* is in it under a name the live scan reports for that EDID.
C3_StoredOrderLiveNames ==
    (ConfigureDone /\ StoredCovers) =>
        \E f \in Embeddings :
            /\ \A s \in 1..Len(StoredDisplays) :
                   StoredDisplays[s].edid \in LiveEdidSet =>
                       \E i \in 1..Len(displays) : f[i] = s
            /\ \A i \in 1..Len(displays) :
                   /\ displays[i].edid = StoredDisplays[f[i]].edid
                   /\ displays[i].edid \in LiveEdidSet =>
                          displays[i].name \in LiveNamesFor(displays[i].edid)

\* C3 witness: two stored displays with different EDIDs are both connected,
\* each on the output the other was stored under, and the stored list is
\* handed over with both names rewritten.
C3_Witness ==
    /\ ConfigureDone
    /\ StoredCovers
    /\ Len(StoredDisplays) = 2
    /\ Len(current_displays) = 2
    /\ StoredDisplays[1].edid # StoredDisplays[2].edid
    /\ get_edids(displays) # get_edids(current_displays)
    /\ \A i \in 1..2 :
           /\ displays[i].name # StoredDisplays[i].name
           /\ displays[i].name \in LiveNamesFor(StoredDisplays[i].edid)

\* C4: when the stored configuration is used, the list handed to configure
\* holds only displays whose EDID the live scan reports, and no directive
\* of the command names an output that is not connected (stated for scans
\* that report at least one connected display).
C4_DisconnectedDropped ==
    (ConfigureDone /\ StoredCovers /\ current_displays # <<>>) =>
        /\ \A i \in 1..Len(displays) : displays[i].edid \in LiveEdidSet
        /\ \A g \in 1..Len(command) :
               command[g].output \in SetOf(NamesOf(current_displays))

\* C5 as stated: the list handed to configure is exactly the live list if
\* and only if no stored configuration exists or some connected display has
\* an EDID that is not in the stored configuration (stated for scans that
\* report at least one connected display).
C5_LiveListIffFallback ==
    (ConfigureDone /\ current_displays # <<>>) =>
        ((displays = current_displays) <=> (file = <<>> \/ ~StoredCovers))

\* C5 amended: if no stored configuration exists or some connected EDID is
\* not in it, the matcher takes the live branch, the list handed to
\* configure is exactly the live list and the command names the live
\* outputs in parse order; otherwise the matcher takes the stored branch
\* and the handed list carries the stored EDIDs in stored order (it may
\* still coincide with the live list).
C5_LiveFallback ==
    ConfigureDone =>
        /\ use_current <=> (file = <<>> \/ ~StoredCovers)
        /\ (file = <<>> \/ ~StoredCovers) =>
               /\ displays = current_displays
               /\ NamesOf(displays) = [g \in 1..Len(command) |-> command[g].output]
        /\ StoredCovers =>
               get_edids(displays) =
                   [i \in 1..Len(StoredDisplays) |-> StoredDisplays[i].edid]

\* C5 witness: a stored configuration with other names exists, a connected
\* display has an EDID it does not hold, and the live list was handed over.
C5_Witness ==
    /\ ConfigureDone
    /\ file # <<>>
    /\ ~(LiveEdidSet \subseteq StoredEdids)
    /\ Len(current_displays) = 2
    /\ displays = current_displays
    /\ \E i \in 1..Len(StoredDisplays) :
           StoredDisplays[i].name \notin SetOf(NamesOf(current_displays))

(***************************************************************************)
(* Status Parser properties (SpecParse)                                    *)
(***************************************************************************)

IsOutputLine(l) == l.has_connected
IsConnectedLine(l) == l.has_connected /\ ~l.has_disconnected

\* the output line that line e stands under (0 when there is none)
OutputLineOf(e) ==
    LET before == {i \in 1..(e - 1) : IsOutputLine(lines[i])}
    IN  IF before = {} THEN 0 ELSE CHOOSE i \in before : \A j \in before : j <= i

\* line e is the EDID marker line of a connected display
IsEdidMarker(e) ==
    /\ lines[e].has_edid
    /\ ~IsOutputLine(lines[e])
    /\ OutputLineOf(e) # 0
    /\ IsConnectedLine(lines[OutputLineOf(e)])

\* a hex continuation line of the block under the marker at line e
IsContinuation(l, e) ==
    /\ ~IsOutputLine(l)
    /\ ~l.has_edid
    /\ ~l.starts_space
    /\ l.tabs > lines[e].edid_index

\* number of continuation lines that directly follow the marker at line e
BlockLength(e) ==
    LET ends == {k \in 0..(Len(lines) - e) :
                    /\ \A i \in 1..k : IsContinuation(lines[e + i], e)
                    /\ e + k < Len(lines) => ~IsContinuation(lines[e + k + 1], e)}
    IN  CHOOSE k \in ends : TRUE

\* index in parsed_displays of the display the marker at line e belongs to
OwnerOf(e) == Cardinality({i \in 1..e : IsConnectedLine(lines[i])})

\* the marker at line e is the last one under its output line
LastMarkerOfOutput(e) ==
    \A i \in (e + 1)..Len(lines) :
        lines[i].has_edid => \E j \in (e + 1)..i : IsOutputLine(lines[j])

\* C6: after parsing, for every EDID marker line of a connected display
\* that is followed by a block of k >= 1 hex continuation lines, the edid of
\* that display is the concatenation of the stripped content of those k
\* lines, in order, whatever follows the block.
C6_EdidIsBlockConcatenation ==
    parse_pc = "returned" =>
        \A e \in 1..Len(lines) :
            (IsEdidMarker(e) /\ LastMarkerOfOutput(e) /\ BlockLength(e) >= 1) =>
                parsed_displays[OwnerOf(e)].edid =
                    Join([i \in 1..BlockLength(e) |-> lines[e + i].stripped])

(***************************************************************************)
(* Setup Wizard properties (SpecSetup, Spec)                               *)
(***************************************************************************)

\* the last element moved to the front
LastToFront(l) ==
    IF l = <<>> THEN <<>> ELSE <<l[Len(l)]>> \o SubSeq(l, 1, Len(l) - 1)

\* the order l with its elements moved r places to the right, cyclically
RotatedBy(l, r) == [i \in 1..Len(l) |-> l[((i - 1 - r + Len(l)) % Len(l)) + 1]]

\* C7: each rejection replaces the candidate order by its rotation by one
\* position (last element to the front); for N displays the first N
\* candidate orders are the N rotations of the parse order, pairwise
\* different, and after the N-th rejection the candidate order is the
\* parse order again.
C7_RotationCycle ==
    proposed # <<>> =>
        LET initial == proposed[1]
            N == Len(initial)
        IN  /\ display_list = proposed[Len(proposed)]
            /\ \A k \in 1..(Len(proposed) - 1) :
                   proposed[k + 1] = LastToFront(proposed[k])
            /\ \A k \in 1..Len(proposed) :
                   k <= N => proposed[k] = RotatedBy(initial, k - 1)
            /\ \A k, m \in 1..Len(proposed) :
                   (k < m /\ m <= N) => proposed[k] # proposed[m]
            /\ Len(proposed) > N => proposed[N + 1] = initial

\* C7 witness: three displays, rejected three times.
C7_Witness ==
    /\ pc = "confirm"
    /\ Len(proposed) = 4
    /\ Len(proposed[1]) = 3
    /\ correct_order = "n"

\* C8: no write to the store happens before acceptance; on acceptance the
\* order persisted is the candidate order of the most recent trial
\* configuration (the parse order rotated once per rejection), the store
\* has been written exactly once, the wizard has terminated, and the order
\* reported equals the order persisted.
C8_AcceptPersistsCandidate ==
    /\ pc = "confirm" => writes = 0
    /\ (pc = "done" /\ action = "--setup") =>
           LET candidate == proposed[Len(proposed)]
           IN  /\ correct_order = "y"
               /\ writes = 1
               /\ file # <<>>
               /\ Len(file[1].displays) = Len(candidate)
               /\ \A i \in 1..Len(candidate) :
                      /\ file[1].displays[i].name = candidate[i].name
                      /\ file[1].displays[i].edid = candidate[i].edid
               /\ candidate = RotatedBy(proposed[1], Len(proposed) - 1)
               /\ [g \in 1..Len(command) |-> command[g].output] = NamesOf(candidate)
               /\ commands = Len(proposed)
               /\ printed = [i \in 1..Len(file[1].displays) |-> file[1].displays[i].name]

\* C8 witness: 'y' after one rejection of two displays; the order reported
\* is the rotated one.
C8_Witness ==
    /\ pc = "done"
    /\ action = "--setup"
    /\ Len(proposed) = 2
    /\ Len(proposed[1]) = 2
    /\ printed = NamesOf(proposed[2])
    /\ printed # NamesOf(proposed[1])

\* C9: only the setup wizard changes the configuration file (--list,
\* --internal, --clone, --extend and --external leave its content as it
\* is), and in every process invocation the file is opened at most once
\* for reading and at most once for writing.
C9_OnlySetupWrites ==
    /\ [](reads <= 1 /\ writes <= 1)
    /\ [](action \in ConfigureFlags \cup {"--list"} => writes = 0)
    /\ [][file' # file => (action = "--setup" /\ pc = "confirm")]_vars

\* C9 witness: a configuring invocation has read an existing file.
C9_Witness ==
    /\ pc = "done"
    /\ action \in ConfigureFlags
    /\ file # <<>>
    /\ reads = 1
    /\ writes = 0

\* C10: while the wizard waits for the confirmation, an answer other than
\* 'y' or 'n' only prompts again: the candidate order, the trial command
\* and the file stay as they are and no further command is issued; the
\* trial command has been issued once per proposed order.
C10_InvalidAnswerReprompts ==
    /\ [](pc = "confirm" => commands = Len(proposed))
    /\ [][(pc = "confirm" /\ correct_order' \notin {"y", "n"}) =>
              /\ pc' = "confirm"
              /\ prompts' = prompts + 1
              /\ UNCHANGED <<display_list, proposed, command, commands,
                             displays, file, writes, printed>>]_vars

\* C10 witness: after a rejection, an invalid answer has been given.
C10_Witness ==
    /\ pc = "confirm"
    /\ Len(proposed) = 2
    /\ prompts = 2
    /\ correct_order \in InvalidAnswers

(***************************************************************************)
(* Command Builder properties, continued (SpecBuild)                       *)
(***************************************************************************)

\* the option "--<direction>-of" of the call's direction
DirectionOption == IF direction = "left" THEN "--left-of" ELSE "--right-of"

\* C11: in INTERNAL_EXTEND mode the directive of display 0 is exactly
\* --primary --auto; that of display 1 is --auto --<direction>-of <display 0>
\* whatever extend_all is; that of display i > 1 is
\* --auto --<direction>-of <display i-1> with extend_all and exactly --off
\* without it.
C11_InternalExtendDirectives ==
    (Configured /\ display_mode = "INTERNAL_EXTEND") =>
        /\ Len(command) = Len(displays)
        /\ \A i \in 1..Len(command) :
               command[i].options =
                   IF i = 1 THEN <<"--primary", "--auto">>
                   ELSE IF i = 2 \/ extend_all
                        THEN <<"--auto", DirectionOption, displays[i - 1].name>>
                        ELSE <<"--off">>

\* C11 witness: three different displays, extend_all, direction right:
\* --primary --auto, --auto --right-of <display 0>,
\* --auto --right-of <display 1>.
C11_Witness ==
    /\ Configured
    /\ display_mode = "INTERNAL_EXTEND"
    /\ extend_all
    /\ direction = "right"
    /\ Len(displays) = 3
    /\ displays[1].name # displays[2].name
    /\ command[1].options = <<"--primary", "--auto">>
    /\ command[2].options = <<"--auto", "--right-of", displays[1].name>>
    /\ command[3].options = <<"--auto", "--right-of", displays[2].name>>

\* C12: in CLONE mode the directive of display 0 is exactly
\* --primary --auto and that of every display i > 0 exactly
\* --auto --same-as <display i-1>; no directive holds --off or a directional
\* position, whatever extend_all and direction are.
C12_CloneDirectives ==
    (Configured /\ display_mode = "CLONE") =>
        /\ Len(command) = Len(displays)
        /\ \A i \in 1..Len(command) :
               /\ command[i].options =
                      IF i = 1 THEN <<"--primary", "--auto">>
                      ELSE <<"--auto", "--same-as", displays[i - 1].name>>
               /\ \A k \in 1..Len(command[i].options) :
                      command[i].options[k] \notin {"--off", "--left-of", "--right-of"}

\* C12 witness: three different displays cloned with extend_all set and
\* direction left.
C12_Witness ==
    /\ Configured
    /\ display_mode = "CLONE"
    /\ extend_all
    /\ direction = "left"
    /\ Len(displays) = 3
    /\ displays[1].name # displays[2].name
    /\ command[3].options = <<"--auto", "--same-as", displays[2].name>>

\* C13: the command holds exactly one directive group per display of the
\* input list, and the i-th group names the i-th display, in every mode and
\* for every extend_all and direction.
C13_OneGroupPerDisplay ==
    Configured =>
        /\ Len(command) = Len(displays)
        /\ \A i \in 1..Len(command) : command[i].output = displays[i].name

\* C13 witness: three displays with different names have been configured.
C13_Witness ==
    /\ Configured
    /\ Len(displays) = 3
    /\ Len(command) = 3
    /\ Cardinality({displays[i].name : i \in 1..3}) = 3
    /\ display_mode = "EXTERNAL_ONLY"

\* occurrences of an option in a directive group
Occurrences(options, o) == Cardinality({k \in 1..Len(options) : options[k] = o})

\* C14: every directive group has at most one --primary, exactly one power
\* option (--auto or --off, never both, never one twice) and at most one
\* positional option, which stands only in a group whose power option is
\* --auto.
C14_DirectiveShape ==
    Configured =>
        \A i \in 1..Len(command) :
            LET o == command[i].options
                positional == {k \in 1..Len(o) : o[k] \in PositionalOptions}
            IN  /\ Occurrences(o, "--primary") <= 1
                /\ Occurrences(o, "--auto") + Occurrences(o, "--off") = 1
                /\ Cardinality(positional) <= 1
                /\ positional # {} => Occurrences(o, "--auto") = 1

\* C18: for every non-empty display list the command enables at least one
\* display: some directive group has --auto and no --off.
C18_SomeDisplayEnabled ==
    (Configured /\ displays # <<>>) =>
        \E i \in 1..Len(command) :
            /\ Occurrences(command[i].options, "--auto") >= 1
            /\ Occurrences(command[i].options, "--off") = 0

\* directive group i switches its display on: --auto and no --off
Enabled(i) ==
    /\ Occurrences(command[i].options, "--auto") >= 1
    /\ Occurrences(command[i].options, "--off") = 0

\* C18 amended: for every non-empty display list the command enables at
\* least one display in CLONE, INTERNAL_ONLY and INTERNAL_EXTEND mode, and
\* in EXTERNAL_ONLY mode when the list holds at least two displays;
\* EXTERNAL_ONLY with a single display powers that display off and enables
\* none.
C18_EnabledUnlessLoneExternal ==
    (Configured /\ displays # <<>>) =>
        IF display_mode = "EXTERNAL_ONLY" /\ Len(displays) = 1
        THEN /\ ~Enabled(1)
             /\ Occurrences(command[1].options, "--off") >= 1
        ELSE \E i \in 1..Len(command) : Enabled(i)

\* C18 witness: EXTERNAL_ONLY without extend_all on two displays; the
\* internal one is off and the external one is the only one enabled.
C18_Witness ==
    /\ Configured
    /\ display_mode = "EXTERNAL_ONLY"
    /\ ~extend_all
    /\ Len(displays) = 2
    /\ ~Enabled(1)
    /\ Enabled(2)

(***************************************************************************)
(* Status Parser properties, continued (SpecParse)                         *)
(***************************************************************************)

\* the connected-display lines consumed so far, in the order reported
ConnectedLines == SelectSeq(lines, IsConnectedLine)

\* C15: whatever the parser's flags are, a line with the disconnected
\* marker adds no record: at every point of the parse the list holds
\* exactly one record per connected-display line consumed, in the order of
\* those lines, with the name, resolution and offsets of its line.
C15_OneRecordPerConnectedLine ==
    /\ Len(parsed_displays) = Len(ConnectedLines)
    /\ \A k \in 1..Len(parsed_displays) :
           /\ parsed_displays[k].name = ConnectedLines[k].name
           /\ parsed_displays[k].resolution = ConnectedLines[k].resolution
           /\ parsed_displays[k].x_offset = ConnectedLines[k].x_offset
           /\ parsed_displays[k].y_offset = ConnectedLines[k].y_offset

\* C15 witness: a disconnected line arrived while the connected flag and
\* the EDID-collection mode were set, between two connected lines; the
\* list holds the two connected displays.
C15_Witness ==
    /\ parse_pc = "returned"
    /\ Len(lines) >= 4
    /\ IsConnectedLine(lines[1])
    /\ lines[2].has_edid
    /\ lines[3].has_disconnected
    /\ IsConnectedLine(lines[4])
    /\ collect_lines
    /\ Len(parsed_displays) = 2
    /\ parsed_displays[1].name # parsed_displays[2].name

\* the stripped content of the lines a..b, concatenated
RECURSIVE Concat(_, _)
Concat(a, b) == IF a > b THEN "" ELSE lines[a].stripped \o Concat(a + 1, b)

\* the stripped content of the lines a..b that are not output lines
RECURSIVE ConcatPlain(_, _)
ConcatPlain(a, b) ==
    IF a > b THEN ""
    ELSE (IF IsOutputLine(lines[a]) THEN "" ELSE lines[a].stripped)
         \o ConcatPlain(a + 1, b)

\* the reference indentation set by the marker at line e
Reference(e) == lines[e].edid_index

\* C16 as stated: t is the first line after the marker at line e whose
\* indentation (leading tabs) equals the reference indentation; read for
\* blocks whose lines do not start with a space and hold no further EDID
\* marker.
FirstAtReference(e, t) ==
    /\ e < t
    /\ \A i \in (e + 1)..t : ~lines[i].starts_space /\ ~lines[i].has_edid
    /\ lines[t].tabs = Reference(e)
    /\ \A i \in (e + 1)..(t - 1) : lines[i].tabs # Reference(e)

\* C16 as stated: when the line just consumed is the first line after an
\* EDID marker of a connected display whose indentation equals the
\* reference indentation, collection mode has ended and the edid of the
\* most recently parsed display is the concatenation of the stripped
\* content of every line between the marker and that line.
C16_CollectEveryFollowingLine ==
    \A e \in 1..(Len(lines) - 1) :
        (IsEdidMarker(e) /\ FirstAtReference(e, Len(lines))) =>
            /\ ~collect_lines
            /\ parsed_displays # <<>>
            /\ parsed_displays[Len(parsed_displays)].edid = Concat(e + 1, Len(lines) - 1)

\* a line the collection branch handles: neither an output line nor an
\* EDID marker found while the connected flag is set
IsPlainLine(i) == ~IsOutputLine(lines[i]) /\ ~IsEdidMarker(i)

\* a plain line that ends the collection started at line e: it starts with
\* a space, or its leading tabs equal the reference indentation
EndsCollection(e, i) ==
    IsPlainLine(i) /\ (lines[i].starts_space \/ lines[i].tabs = Reference(e))

\* line t is the first line after the marker at line e that ends the
\* collection, and no marker in between restarts it
FirstEnd(e, t) ==
    /\ e < t
    /\ EndsCollection(e, t)
    /\ \A i \in (e + 1)..(t - 1) : ~IsEdidMarker(i) /\ ~EndsCollection(e, i)

\* C16 amended: after an EDID marker of a connected display, the stripped
\* content of every following line that is not an output line is appended
\* until the first such line that starts with a space or whose leading tabs
\* equal the reference indentation (the marker's column); that line is not
\* included, the collected string is stored as the edid of the display most
\* recently parsed at that point, and collection mode ends. Output lines in
\* between are not appended and do not end the collection.
C16_CollectPlainLines ==
    \A e \in 1..(Len(lines) - 1) :
        (IsEdidMarker(e) /\ FirstEnd(e, Len(lines))) =>
            /\ ~collect_lines
            /\ parsed_displays # <<>>
            /\ parsed_displays[Len(parsed_displays)].edid =
                   ConcatPlain(e + 1, Len(lines) - 1)

\* C16 witness: a block of two different hex lines under the marker of a
\* connected display was ended by a property line at the marker's column
\* and stored on that display.
C16_Witness ==
    /\ Len(lines) = 5
    /\ IsConnectedLine(lines[1])
    /\ IsEdidMarker(2)
    /\ lines[3].tabs = 2
    /\ lines[4].tabs = 2
    /\ lines[3].stripped # lines[4].stripped
    /\ ~lines[5].starts_space
    /\ FirstEnd(2, 5)
    /\ ~collect_lines
    /\ parsed_displays[1].edid = lines[3].stripped \o lines[4].stripped

\* line index of the k-th connected-display line
ConnectedLineAt(k) ==
    CHOOSE i \in 1..Len(lines) :
        /\ IsConnectedLine(lines[i])
        /\ Cardinality({j \in 1..i : IsConnectedLine(lines[j])}) = k

\* index of the first output line after line c (Len(lines) + 1 when none)
NextOutputAfter(c) ==
    LET later == {i \in (c + 1)..Len(lines) : IsOutputLine(lines[i])}
    IN  IF later = {} THEN Len(lines) + 1
        ELSE CHOOSE i \in later : \A j \in later : i <= j

\* the strings made of stripped content of some of the lines a..b, in order
RECURSIVE ContentOf(_, _)
ContentOf(a, b) ==
    IF a > b THEN {""}
    ELSE LET rest == ContentOf(a + 1, b)
         IN  rest \cup {lines[a].stripped \o r : r \in rest}

\* C20: at every point of the parse the edid of each display is empty or
\* made only of content of lines between that display's connected line and
\* the next output line, and the EDID-collection mode is not set right
\* after an output line.
C20_EdidFromOwnBlock ==
    /\ \A k \in 1..Len(parsed_displays) :
           parsed_displays[k].edid \in
               ContentOf(ConnectedLineAt(k) + 1, NextOutputAfter(ConnectedLineAt(k)) - 1)
    /\ (lines # <<>> /\ IsOutputLine(lines[Len(lines)])) => ~collect_lines

(***************************************************************************)
(* Store and Matcher properties, continued (Spec)                          *)
(***************************************************************************)

\* C17: no configuring invocation fails while loading the stored
\* configuration; what it loads is the persisted list, equal in order,
\* names, resolutions, offsets and EDIDs, and a missing file yields None.
C17_StoreRoundTrip ==
    /\ pc # "crashed"
    /\ ConfigureDone =>
           IF file = <<>>
           THEN configuration_list = <<>>
           ELSE /\ configuration_list # <<>>
                /\ ToJson(configuration_list[1]) = file[1]

\* the elements of a list are pairwise different
Distinct(l) == \A i, j \in 1..Len(l) : i # j => l[i] # l[j]

\* C19: when the live scan reports pairwise distinct output names and the
\* stored configuration holds pairwise distinct names, the names of the
\* list handed to configure are pairwise distinct, and no two directive
\* groups of the command address the same output.
C19_DistinctOutputNames ==
    (/\ ConfigureDone
     /\ Distinct(NamesOf(current_displays))
     /\ file # <<>> => Distinct(NamesOf(StoredDisplays))) =>
        /\ Distinct(NamesOf(displays))
        /\ Distinct([g \in 1..Len(command) |-> command[g].output])

====
